---- MODULE Spec2Model ----
(***************************************************************************)
(* Model of the EV-learner bidding policy, example_agents/my_agent.py.     *)
(*                                                                         *)
(* Numbers.  The policy computes in IEEE doubles.  Here every amount of    *)
(* gold, every expected value and every dimensionless factor is a fixed    *)
(* point integer counted in thousandths (Scale units per 1.0); a product   *)
(* of two such numbers is rounded to the nearest thousandth.  An exact     *)
(* tie x.xx5 of round(bid, 2) is rounded half to even, as Python does for  *)
(* a representable tie.                                                    *)
(*                                                                         *)
(* Control.  make_bid is one sequential call: pc walks                     *)
(*   idle -> learn (one step per outcome record) -> plan (one step per     *)
(*   auction) -> returned | raised -> idle.                                *)
(* A missing or unparsable dictionary field is the empty sequence <<>>,    *)
(* a present field v is <<v>>.                                             *)
(***************************************************************************)
EXTENDS Integers, Sequences, FiniteSets, TLC

\* thousandths per unit; the resolution of the fixed point model
Scale == 10 * 10 * 10

\* ---- the dashboard, lines 11-18, in thousandths ------------------------
ALPHA_FAIR_PRICE_PER_POINT == 15000
WIN_MARGIN == 1050
MAX_SPEND_FRACTION == 950
MIN_BID == 1000
TIE_JITTER_MAX == 3000
LEARN_DECAY == 800
CAP_BID_AT_GOLD == TRUE
IGNORE_LOW_EV == 500

\* ---- bounds of the model -----------------------------------------------
MaxRounds == 2
MaxPrev == 2
MaxAuctions == 2

VARIABLES
  learned_win_prices, \* the module-level store: shape -> EMA of winning bids
  round,              \* number of make_bid calls started so far
  pc,                 \* position inside make_bid
  prev_auctions,      \* argument: sequence of previous-round outcome records
  auctions,           \* argument: sequence of this round's auctions
  my_gold,            \* float(my.get("gold", 0.0))
  bank_state,         \* argument: <<>> absent, else [rate, cap] lists
  n_states,           \* len(states)
  idx,                \* index of the running for-loop
  spendable,          \* local of make_bid
  comp,               \* local of make_bid
  plan,               \* local of make_bid
  bids,               \* the returned map a_id -> rounded bid
  committed,          \* a_id -> amount taken from remaining (before round)
  entry_prices,       \* history: learned_win_prices when the call started
  seen                \* history: winning bids observed per shape (first 3)

vars == <<learned_win_prices, round, pc, prev_auctions, auctions, my_gold,
          bank_state, n_states, idx, spendable, comp, plan, bids, committed,
          entry_prices, seen>>

\* ---- arithmetic helpers ------------------------------------------------
Max(a, b) == IF a >= b THEN a ELSE b
Min(a, b) == IF a <= b THEN a ELSE b

\* nearest integer to a / b, b > 0
RoundDiv(a, b) == (a + (b \div 2)) \div b

\* product of two fixed point numbers
Mul(x, y) == RoundDiv(x * y, Scale)

Present(f) == f # <<>>
EmptyMap == [x \in {} |-> 0]
MapPut(m, k, v) == [x \in (DOMAIN m) \cup {k} |-> IF x = k THEN v ELSE m[x]]

\* ---- pure functions of the source --------------------------------------

\* lines 24-25; raises KeyError when die or num is missing, bonus defaults 0
KeyRaises(a) == ~Present(a.die) \/ ~Present(a.num)
auction_key(a) ==
  <<a.die[1], a.num[1], IF Present(a.bonus) THEN a.bonus[1] ELSE 0>>

\* lines 27-29, in thousandths
expected_points(a) ==
  ((a.num[1] * (a.die[1] * Scale + Scale)) \div 2)
    + (IF Present(a.bonus) THEN a.bonus[1] ELSE 0) * Scale

\* a faulty blend: the weights of history and observation are swapped
ema_update_swapped(old, new, decay) ==
  IF old <= 0 THEN new
  ELSE RoundDiv((Scale - decay) * old + decay * new, Scale)

\* lines 31-34
ema_update(old, new, decay) ==
  IF old <= 0 THEN new
  ELSE RoundDiv(decay * old + (Scale - decay) * new, Scale)

\* lines 36-39
estimate_competitiveness(nStates, nAuctions) ==
  Max(Scale, RoundDiv(Max(1, nStates) * Scale, Max(1, nAuctions)))

\* a faulty reserve: the bank's cap is not applied
reserve_for_interest_nocap(gold, bank) ==
  IF ~Present(bank) THEN 0
  ELSE IF ~Present(bank[1].rate) \/ ~Present(bank[1].cap) THEN 0
  ELSE LET r == bank[1].rate[1]
       IN IF r <= 0 THEN 0
          ELSE Max(0, Min(Mul(gold, Min(Scale \div 2, 2 * r)), gold \div 2))

\* lines 41-63; bank = <<>> is a falsy bank_state, a missing [0] element of
\* either list raises inside the try and gives 0
reserve_for_interest(gold, bank) ==
  IF ~Present(bank) THEN 0
  ELSE IF ~Present(bank[1].rate) \/ ~Present(bank[1].cap) THEN 0
  ELSE LET r == bank[1].rate[1]
           cap == bank[1].cap[1]
       IN IF r <= 0 THEN 0
          ELSE LET reserve_frac == Min(Scale \div 2, 2 * r)
                   target_reserve == Mul(Min(cap, gold), reserve_frac)
               IN Max(0, Min(target_reserve, gold \div 2))

\* lines 131-133
spendable_of(gold, bank) ==
  Max(0, Mul(gold, MAX_SPEND_FRACTION) - reserve_for_interest(gold, bank))

\* ---- the learning loop, lines 65-78 ------------------------------------

\* a record the loop body leaves by `continue`: _auction_key raises, the
\* bids list is missing or empty, or the winning bid does not parse
RecordSkipped(info) ==
  \/ KeyRaises(info)
  \/ info.bids = <<>>
  \/ ~Present(info.bids[1])

\* the defaultdict read _learned_win_prices[k]
StoreRead(tbl, k) == IF k \in DOMAIN tbl THEN tbl[k] ELSE 0

\* a faulty loop body: reads the defaultdict entry before looking at bids,
\* which inserts 0.0 for a record without bids
learn_record_touch(tbl, info) ==
  IF KeyRaises(info) THEN tbl
  ELSE LET k == auction_key(info)
           touched == MapPut(tbl, k, StoreRead(tbl, k))
       IN IF info.bids = <<>> \/ ~Present(info.bids[1]) THEN touched
          ELSE MapPut(tbl, k, ema_update(StoreRead(tbl, k), info.bids[1][1],
                                         LEARN_DECAY))

\* one iteration of the loop body, lines 68-78: the store afterwards
learn_record(tbl, info) ==
  IF RecordSkipped(info) THEN tbl
  ELSE LET k == auction_key(info)
       IN MapPut(tbl, k, ema_update(StoreRead(tbl, k), info.bids[1][1],
                                    LEARN_DECAY))

\* a faulty loop: leaves after the first record
learn_finished_early(i, batch) == i > Min(1, Len(batch))

\* line 67: the for loop is exhausted
learn_finished(i, batch) == i > Len(batch)

\* ---- the suggested bid, lines 80-108 -----------------------------------

\* a faulty query: indexing the defaultdict inserts 0.0 for an unseen shape
store_after_index(tbl, k) == MapPut(tbl, k, StoreRead(tbl, k))

\* line 91: .get(k, 0.0) leaves the store as it is
store_after_get(tbl, k) == tbl

\* a faulty price rule: always the cold-start formula
fair_price_cold(ev, learned, competitiveness) ==
  Mul(Mul(ALPHA_FAIR_PRICE_PER_POINT, ev),
      (3 * Scale) \div 4 + RoundDiv(competitiveness, 4))

\* lines 93-97
fair_price(ev, learned, competitiveness) ==
  IF learned > 0 THEN Mul(learned, WIN_MARGIN)
  ELSE Mul(Mul(ALPHA_FAIR_PRICE_PER_POINT, ev),
           (3 * Scale) \div 4 + RoundDiv(competitiveness, 4))

\* a faulty floor test: only a negative expected value is ignored
ignored_negative(ev) == ev < 0

\* line 87
ignored(ev) == ev < IGNORE_LOW_EV

\* lines 99-108, after the fair price is known
bid_from_fair(fair, available, jitter) ==
  LET capped == IF CAP_BID_AT_GOLD THEN Min(fair, Max(0, available)) ELSE fair
  IN Max(0, Max(MIN_BID, capped + jitter))

\* lines 86-108
suggest_bid_for_auction(a, competitiveness, available, tbl, jitter) ==
  LET ev == expected_points(a)
  IN IF ignored(ev) THEN 0
     ELSE bid_from_fair(
            fair_price(ev, StoreRead(tbl, auction_key(a)), competitiveness),
            available, jitter)

\* ---- ranking and allocation, lines 143-158 -----------------------------

\* expected value in half points: N*(D+1)/2 + B is a multiple of 0.5
HalfPoints(ev) == ev \div (Scale \div 2)

\* efficiency = ev / max(1.0, suggested), line 143, compared by cross
\* multiplication: efficiency of x is strictly greater than that of y
EffGreater(x, y) ==
  HalfPoints(x.ev) * Max(Scale, y.suggested)
    > HalfPoints(y.ev) * Max(Scale, x.suggested)

\* x goes behind every entry whose efficiency is not smaller (stable)
InsertDesc(sorted, x) ==
  LET p == Cardinality({n \in 1..Len(sorted) : ~EffGreater(x, sorted[n])})
  IN SubSeq(sorted, 1, p) \o <<x>> \o SubSeq(sorted, p + 1, Len(sorted))

RECURSIVE SortDesc(_)
SortDesc(s) ==
  IF s = <<>> THEN <<>>
  ELSE InsertDesc(SortDesc(SubSeq(s, 1, Len(s) - 1)), s[Len(s)])

\* a faulty ranking: the plan is walked in input order
sort_plan_missing(s) == s

\* line 147: plan.sort(reverse=True, key=efficiency), a stable sort
sort_plan(s) == SortDesc(s)

\* hundredths in thousandths
Cent == Scale \div 100

\* line 157: round(bid, 2), ties to even
round2(x) ==
  LET q == x \div Cent
      r == x % Cent
  IN IF 2 * r < Cent THEN q * Cent
     ELSE IF 2 * r > Cent THEN (q + 1) * Cent
     ELSE IF q % 2 = 0 THEN q * Cent ELSE (q + 1) * Cent

\* line 154
commit_amount(proposed, remaining) == Min(proposed, remaining)

\* lines 149-158: the loop from entry n on; acc.bids is the returned map,
\* acc.committed lists, in funding order, what was taken from remaining
RECURSIVE alloc_loop(_, _, _, _)
alloc_loop(sorted, n, remaining, acc) ==
  IF n > Len(sorted) THEN acc
  ELSE LET p == sorted[n]
       IN IF p.suggested <= 0 \/ remaining <= 0
          THEN alloc_loop(sorted, n + 1, remaining, acc)
          ELSE LET bid == commit_amount(p.suggested, remaining)
               IN IF bid < MIN_BID
                  THEN alloc_loop(sorted, n + 1, remaining, acc)
                  ELSE alloc_loop(sorted, n + 1, remaining - bid,
                         [bids |-> MapPut(acc.bids, p.a_id, round2(bid)),
                          committed |-> Append(acc.committed,
                             [a_id |-> p.a_id, amount |-> bid,
                              proposed |-> p.suggested])])

allocate(sorted, budget) ==
  alloc_loop(sorted, 1, budget, [bids |-> EmptyMap, committed |-> <<>>])

\* ---- the state machine -------------------------------------------------

Init ==
  /\ learned_win_prices = EmptyMap
  /\ round = 0
  /\ pc = "idle"
  /\ prev_auctions = <<>>
  /\ auctions = <<>>
  /\ my_gold = 0
  /\ bank_state = <<>>
  /\ n_states = 0
  /\ idx = 0
  /\ spendable = 0
  /\ comp = 0
  /\ plan = <<>>
  /\ bids = EmptyMap
  /\ committed = <<>>
  /\ entry_prices = EmptyMap
  /\ seen = EmptyMap

\* the game client calls make_bid with the round's snapshot, lines 110-117
Call(Batches, AuctionLists, Golds, Banks, Players) ==
  /\ pc = "idle"
  /\ round < MaxRounds
  /\ \E b \in Batches, al \in AuctionLists, g \in Golds, bk \in Banks,
        n \in Players :
       /\ prev_auctions' = b
       /\ auctions' = al
       /\ my_gold' = g
       /\ bank_state' = bk
       /\ n_states' = n
  /\ round' = round + 1
  /\ pc' = "learn"
  /\ idx' = 1
  /\ entry_prices' = learned_win_prices
  /\ UNCHANGED <<learned_win_prices, spendable, comp, plan, bids, committed,
                 seen>>

\* history of the winning bids observed for a shape; only the first three
\* are kept
SeenAfter(sn, info) ==
  IF RecordSkipped(info) THEN sn
  ELSE LET k == auction_key(info)
           old == IF k \in DOMAIN sn THEN sn[k] ELSE <<>>
       IN MapPut(sn, k, IF Len(old) < 3 THEN Append(old, info.bids[1][1])
                        ELSE old)

\* one iteration of the loop of _learn_from_prev, lines 67-78
LearnRecord ==
  /\ pc = "learn"
  /\ ~learn_finished(idx, prev_auctions)
  /\ learned_win_prices' = learn_record(learned_win_prices, prev_auctions[idx])
  /\ seen' = SeenAfter(seen, prev_auctions[idx])
  /\ idx' = idx + 1
  /\ UNCHANGED <<round, pc, prev_auctions, auctions, my_gold, bank_state,
                 n_states, spendable, comp, plan, bids, committed,
                 entry_prices>>

\* lines 127-138: the budget and the competitiveness, then the plan loop
PlanBudget ==
  /\ pc = "learn"
  /\ learn_finished(idx, prev_auctions)
  /\ spendable' = spendable_of(my_gold, bank_state)
  /\ comp' = estimate_competitiveness(n_states, Len(auctions))
  /\ plan' = <<>>
  /\ idx' = 1
  /\ pc' = "plan"
  /\ UNCHANGED <<learned_win_prices, round, prev_auctions, auctions, my_gold,
                 bank_state, n_states, bids, committed, entry_prices, seen>>

\* one iteration of the plan loop, lines 139-144; a KeyError of
\* _expected_points or _auction_key leaves make_bid
PlanAuction(Jitters) ==
  /\ pc = "plan"
  /\ idx <= Len(auctions)
  /\ LET a == auctions[idx]
     IN IF KeyRaises(a)
        THEN /\ pc' = "raised"
             /\ UNCHANGED <<learned_win_prices, idx, plan>>
        ELSE \E jitter \in Jitters :
               LET ev == expected_points(a)
                   k == auction_key(a)
                   learned == StoreRead(learned_win_prices, k)
               IN /\ plan' = Append(plan,
                       [a_id |-> idx, ev |-> ev,
                        suggested |-> suggest_bid_for_auction(
                           a, comp, spendable, learned_win_prices, jitter),
                        fair |-> IF ignored(ev) THEN 0
                                 ELSE fair_price(ev, learned, comp)])
                  /\ learned_win_prices' =
                       IF ignored(ev) THEN learned_win_prices
                       ELSE store_after_get(learned_win_prices, k)
                  /\ idx' = idx + 1
                  /\ pc' = pc
  /\ UNCHANGED <<round, prev_auctions, auctions, my_gold, bank_state,
                 n_states, spendable, comp, bids, committed, entry_prices,
                 seen>>

\* lines 146-160: sort, allocate, return the bid map
Allocate ==
  /\ pc = "plan"
  /\ idx > Len(auctions)
  /\ LET res == allocate(sort_plan(plan), spendable)
     IN /\ bids' = res.bids
        /\ committed' = res.committed
  /\ pc' = "returned"
  /\ UNCHANGED <<learned_win_prices, round, prev_auctions, auctions, my_gold,
                 bank_state, n_states, idx, spendable, comp, plan,
                 entry_prices, seen>>

\* the frame of make_bid is gone: only the module-level store survives
Return ==
  /\ pc \in {"returned", "raised"}
  /\ pc' = "idle"
  /\ prev_auctions' = <<>>
  /\ auctions' = <<>>
  /\ my_gold' = 0
  /\ bank_state' = <<>>
  /\ n_states' = 0
  /\ idx' = 0
  /\ spendable' = 0
  /\ comp' = 0
  /\ plan' = <<>>
  /\ bids' = EmptyMap
  /\ committed' = <<>>
  /\ entry_prices' = learned_win_prices
  /\ UNCHANGED <<learned_win_prices, round, seen>>

\* ---- the inputs --------------------------------------------------------

SeqsUpTo(S, n) == UNION {[1..m -> S] : m \in 0..n}

Gold(units, thousandths) == units * Scale + thousandths

\* 1d6 without a bonus field: expected value 3.5, shape (6, 1, 0)
AuctionA == [die |-> <<6>>, num |-> <<1>>, bonus |-> <<>>]
\* 1d4 - 2: expected value 0.5, exactly the ignore floor
AuctionB == [die |-> <<4>>, num |-> <<1>>, bonus |-> <<-2>>]
\* 0d6: expected value 0, below the ignore floor
AuctionZ == [die |-> <<6>>, num |-> <<0>>, bonus |-> <<0>>]
\* no die field
AuctionBad == [die |-> <<>>, num |-> <<1>>, bonus |-> <<0>>]

\* an outcome record: the auction's fields and the bid amounts, winner first
Outcome(a, winning) ==
  [die |-> a.die, num |-> a.num, bonus |-> a.bonus, bids |-> winning]
Won(a, g) == Outcome(a, << <<Gold(g, 0)>> >>)

NoBank == <<>>
Bank(r, c) == <<[rate |-> r, cap |-> c]>>

\* jitter = random.uniform(0.0, TIE_JITTER_MAX), line 104
Jitters == {0, 6, TIE_JITTER_MAX}

\* -- Spec: many auctions, little history
AuctionLists == SeqsUpTo({AuctionA, AuctionB, AuctionZ, AuctionBad}, MaxAuctions)
Batches ==
  {<<>>, <<Won(AuctionA, 2)>>,
   <<Outcome(AuctionA, << <<>> >>), Won(AuctionZ, 2)>>}
Golds == {0, Gold(10, 80), Gold(1000, 0)}
Banks == {NoBank, Bank(<<100>>, <<Gold(2000, 0)>>)}
Players == {2}

Next ==
  \/ Call(Batches, AuctionLists, Golds, Banks, Players)
  \/ LearnRecord
  \/ PlanBudget
  \/ PlanAuction(Jitters)
  \/ Allocate
  \/ Return

Spec == Init /\ [][Next]_vars

\* -- SpecLearn: rich outcome batches, a single auction
LearnRecords ==
  { Outcome(AuctionBad, << <<Gold(100, 0)>> >>),
    Outcome(AuctionA, <<>>),
    Won(AuctionA, 0), Won(AuctionA, 100), Won(AuctionA, 50) }
LearnBatches == SeqsUpTo(LearnRecords, MaxPrev)
LearnAuctionLists == {<<AuctionA>>}

NextLearn ==
  \/ Call(LearnBatches, LearnAuctionLists, {Gold(1000, 0)}, {NoBank}, {1})
  \/ LearnRecord
  \/ PlanBudget
  \/ PlanAuction({6})
  \/ Allocate
  \/ Return

SpecLearn == Init /\ [][NextLearn]_vars

\* -- SpecBudget: rich balances and bank schedules
BudgetGolds == {0, Gold(1, 0), Gold(10, 80), Gold(500, 0), Gold(1000, 0),
                Gold(2000, 0)}
BudgetBanks ==
  {NoBank, Bank(<<>>, <<>>), Bank(<<100>>, <<>>)}
    \cup {Bank(<<r>>, <<c>>) : r \in {-50, 0, 100, 113, 300},
                               c \in {Gold(5, 0), Gold(2000, 0)}}

NextBudget ==
  \/ Call({<<>>, <<Won(AuctionA, 2)>>}, {<<AuctionA>>}, BudgetGolds,
          BudgetBanks, {1})
  \/ LearnRecord
  \/ PlanBudget
  \/ PlanAuction({6})
  \/ Allocate
  \/ Return

SpecBudget == Init /\ [][NextBudget]_vars

\* ---- what the claims speak about ---------------------------------------

\* EV = N*(D+1)/2 + B of an auction whose fields are present
ClaimEV(a) ==
  (a.num[1] * (a.die[1] + 1) * Scale) \div 2
    + (IF Present(a.bonus) THEN a.bonus[1] ELSE 0) * Scale

Shape(a) == <<a.die[1], a.num[1], IF Present(a.bonus) THEN a.bonus[1] ELSE 0>>

\* an outcome record with every field parsable and a winning bid
WellFormedOutcome(info) ==
  /\ Present(info.die)
  /\ Present(info.num)
  /\ Len(info.bids) > 0
  /\ Present(info.bids[1])

WellFormedAuction(a) == Present(a.die) /\ Present(a.num)

\* d*old + (1-d)*observed
Blend(old, observed) ==
  RoundDiv(LEARN_DECAY * old + (Scale - LEARN_DECAY) * observed, Scale)

\* observe(outcome) of the Market Learner: blend into a positive estimate,
\* otherwise start from the observed winning bid
Observe(tbl, info) ==
  LET k == Shape(info)
      v == info.bids[1][1]
  IN MapPut(tbl, k, IF k \in DOMAIN tbl /\ tbl[k] > 0 THEN Blend(tbl[k], v)
                    ELSE v)

RECURSIVE ObserveAll(_, _)
ObserveAll(tbl, batch) ==
  IF batch = <<>> THEN tbl
  ELSE ObserveAll(Observe(tbl, Head(batch)), Tail(batch))

\* the records of the batch that the learning loop has passed so far
Ingested ==
  IF pc = "learn" THEN SubSeq(prev_auctions, 1, idx - 1) ELSE prev_auctions

\* the store after the whole previous round has been applied
StoreAfterPrev ==
  ObserveAll(entry_prices, SelectSeq(prev_auctions, WellFormedOutcome))

RECURSIVE SumAmounts(_)
SumAmounts(s) ==
  IF s = <<>> THEN 0 ELSE s[1].amount + SumAmounts(Tail(s))

RECURSIVE SumBids(_, _)
SumBids(m, ids) ==
  IF ids = {} THEN 0
  ELSE LET a == CHOOSE x \in ids : TRUE
       IN m[a] + SumBids(m, ids \ {a})

InCall == pc \in {"plan", "returned", "raised"}

\* ---- C1 ----------------------------------------------------------------

\* C1: every bid of the returned map is non-negative and at least MIN_BID,
\* and the returned (rounded) bids sum to at most the round's spendable
\* budget.
C1_BidsWithinSpendable ==
  pc = "returned" =>
    /\ \A a \in DOMAIN bids : bids[a] >= 0 /\ bids[a] >= MIN_BID
    /\ SumBids(bids, DOMAIN bids) <= spendable

\* C1, the part the code keeps: the bids are at least MIN_BID, and the
\* amounts taken from the budget before rounding sum to at most spendable.
C1_CommittedWithinSpendable ==
  pc = "returned" =>
    /\ \A a \in DOMAIN bids : bids[a] >= MIN_BID
    /\ SumAmounts(committed) <= spendable

\* ---- C2 ----------------------------------------------------------------

\* C2: a malformed auction record never aborts the round: make_bid does
\* not raise.
C2_MalformedAuctionSkipped == pc # "raised"

\* ---- C3 ----------------------------------------------------------------

\* C3: at every point of the learning loop the store equals the entry store
\* with only the well-formed records passed so far observed, in order:
\* malformed and bid-less records change nothing and do not stop the loop.
C3_BadRecordsSkipped ==
  /\ learned_win_prices =
       ObserveAll(entry_prices, SelectSeq(Ingested, WellFormedOutcome))
  /\ InCall => learned_win_prices = StoreAfterPrev

C3_Witness ==
  /\ pc = "plan"
  /\ Len(prev_auctions) = 2
  /\ ~WellFormedOutcome(prev_auctions[1])
  /\ WellFormedOutcome(prev_auctions[2])
  /\ learned_win_prices # entry_prices

\* ---- C4 ----------------------------------------------------------------

\* C4: after exactly two observations v1 then v2 of a shape without
\* history the estimate is d*v1 + (1-d)*v2, for all v1 and v2.
C4_TwoObservations ==
  \A k \in DOMAIN seen :
    Len(seen[k]) = 2 => learned_win_prices[k] = Blend(seen[k][1], seen[k][2])

\* C4 amended: the same, for a first observation v1 > 0.
C4_TwoObservationsPositive ==
  \A k \in DOMAIN seen :
    (Len(seen[k]) = 2 /\ seen[k][1] > 0)
      => learned_win_prices[k] = Blend(seen[k][1], seen[k][2])

C4_Witness ==
  /\ Shape(AuctionA) \in DOMAIN seen
  /\ seen[Shape(AuctionA)] = <<Gold(100, 0), Gold(50, 0)>>
  /\ learned_win_prices[Shape(AuctionA)] = Gold(90, 0)

\* ---- C5 ----------------------------------------------------------------

Clamp(x, lo, hi) == Max(lo, Min(x, hi))

ClaimReserve(G, bank) ==
  IF ~Present(bank) THEN 0
  ELSE IF ~Present(bank[1].rate) \/ ~Present(bank[1].cap) THEN 0
  ELSE IF bank[1].rate[1] <= 0 THEN 0
  ELSE Clamp(Mul(Min(bank[1].cap[1], G), Min(Scale \div 2, 2 * bank[1].rate[1])),
             0, G \div 2)

C6_LearnBeforeBids ==
  InCall =>
    /\ learned_win_prices = StoreAfterPrev
    /\ \A n \in 1..Len(plan) :
         LET a == auctions[plan[n].a_id]
         IN plan[n].fair =
              IF ClaimEV(a) < IGNORE_LOW_EV THEN 0
              ELSE fair_price(ClaimEV(a), StoreRead(StoreAfterPrev, Shape(a)),
                              comp)

C6_Witness ==
  /\ pc = "returned"
  /\ Len(prev_auctions) = 2
  /\ WellFormedOutcome(prev_auctions[1])
  /\ WellFormedOutcome(prev_auctions[2])
  /\ prev_auctions[1] # prev_auctions[2]
  /\ Len(plan) = 1
  /\ Shape(auctions[1]) \in DOMAIN learned_win_prices
  /\ plan[1].fair = Mul(learned_win_prices[Shape(auctions[1])], WIN_MARGIN)
  /\ learned_win_prices # entry_prices

\* ---- C7 ----------------------------------------------------------------

\* C7: an auction whose EV is below IGNORE_LOW_EV has suggested bid 0 and is
\* absent from the returned map.
C7_LowEvNeverBid ==
  \A n \in 1..Len(plan) :
    ClaimEV(auctions[plan[n].a_id]) < IGNORE_LOW_EV
      => /\ plan[n].suggested = 0
         /\ pc = "returned" => plan[n].a_id \notin DOMAIN bids

C7_Witness ==
  /\ pc = "returned"
  /\ \E n \in 1..Len(plan) :
       /\ ClaimEV(auctions[plan[n].a_id]) < IGNORE_LOW_EV
       /\ Shape(auctions[plan[n].a_id]) \in DOMAIN learned_win_prices
       /\ learned_win_prices[Shape(auctions[plan[n].a_id])] > 0
  /\ bids # EmptyMap
  /\ SumAmounts(committed) < spendable

\* ---- C8 ----------------------------------------------------------------

ColdStart(ev, competitiveness) ==
  Mul(Mul(ALPHA_FAIR_PRICE_PER_POINT, ev),
      (3 * Scale) \div 4 + RoundDiv(competitiveness, 4))

C9_StoreFrame ==
  [][ /\ DOMAIN learned_win_prices \subseteq DOMAIN learned_win_prices'
      /\ \A k \in DOMAIN learned_win_prices :
           learned_win_prices[k] > 0 => learned_win_prices'[k] > 0
      /\ \A k \in DOMAIN learned_win_prices' :
           (k \notin DOMAIN learned_win_prices
              \/ learned_win_prices'[k] # learned_win_prices[k])
             => /\ pc = "learn"
                /\ idx <= Len(prev_auctions)
                /\ WellFormedOutcome(prev_auctions[idx])
                /\ Shape(prev_auctions[idx]) = k
      /\ pc = "plan" => learned_win_prices' = learned_win_prices
    ]_vars

C9_Witness ==
  /\ pc = "returned"
  /\ round = 2
  /\ Len(plan) = 2
  /\ \E n \in 1..2 :
       /\ Shape(auctions[n]) \notin DOMAIN learned_win_prices
       /\ plan[n].suggested > 0
  /\ DOMAIN learned_win_prices = {Shape(AuctionA), Shape(AuctionZ)}
  /\ DOMAIN entry_prices = {Shape(AuctionA)}

\* ---- C10 ---------------------------------------------------------------

\* efficiency = EV / max(1, suggested bid): that of x is below that of y
ClaimEffLess(x, y) ==
  HalfPoints(ClaimEV(auctions[x.a_id])) * Max(Scale, y.suggested)
    < HalfPoints(ClaimEV(auctions[y.a_id])) * Max(Scale, x.suggested)

\* C10: in a returned map, when an auction with a positive suggested bid has
\* no bid, no auction of strictly lower efficiency has one; and only the
\* last funded auction can be committed less than its suggested bid, and it
\* is then committed the remaining budget.
C10_GreedyByEfficiency ==
  pc = "returned" =>
    /\ \A m, n \in 1..Len(plan) :
         (/\ plan[m].suggested > 0
          /\ plan[m].a_id \notin DOMAIN bids
          /\ ClaimEffLess(plan[n], plan[m]))
           => plan[n].a_id \notin DOMAIN bids
    /\ \A c \in 1..Len(committed) :
         committed[c].amount < committed[c].proposed
           => /\ c = Len(committed)
              /\ committed[c].amount
                   = spendable - SumAmounts(SubSeq(committed, 1, c - 1))
    /\ \A c \in 1..Len(committed) :
         committed[c].amount <= committed[c].proposed

C10_Witness ==
  /\ pc = "returned"
  /\ Len(plan) = 2
  /\ Len(committed) = 1
  /\ committed[1].a_id = 2
  /\ committed[1].amount < committed[1].proposed
  /\ \E m \in 1..Len(plan) :
       /\ plan[m].suggested > 0
       /\ plan[m].a_id \notin DOMAIN bids
       /\ \E n \in 1..Len(plan) : ClaimEffLess(plan[m], plan[n])

====
